---- MODULE Spec2Model ----
(***************************************************************************)
(* Maze game core of soma09112021/Lost: the maze generator (maze.js, in    *)
(* src/src/main.js lines 387-528), the continuous-movement variant         *)
(* ("Variant B", src/src/main.js lines 1-386) and the hop variant          *)
(* ("Variant A", src/unnamed/part_000).                                    *)
(*                                                                         *)
(* Conventions.  A cell is the pair <<x, y>>; a direction is 0 top,        *)
(* 1 right, 2 bottom, 3 left.  Maze.grid is the row-major function         *)
(* 0..cols*rows-1 -> passage mask.  Pixel coordinates are points of an     *)
(* integer lattice; layouts are chosen so that cell centres fall on it.    *)
(***************************************************************************)
EXTENDS Integers, Sequences, FiniteSets, TLC

VARIABLES
  maze,      \* the Maze object: [cols, rows, grid, start, goal]
  stack,     \* generate: the local stack, a sequence of cells
  visited,   \* generate: the local visited set of row-major indices
  rand,      \* generate: the state a of the mulberry32 closure, <<hi16, lo16>>
  pc,        \* position of the generator: "new", "loop", "done"
  seed,      \* the seed handed to generate, <<hi16, lo16>>
  prev,      \* the grid of the previous run with the same arguments, or <<>>
  pushes,    \* history: how often each index was pushed on the stack
  pops,      \* history: how often each index was popped off the stack
  canvas,    \* els.canvas: [w, h]
  metrics,   \* the layout metrics [cellSize, originX, originY], or << >>
  player,    \* the player object
  lastHurtAt, \* time of the last hurt() event
  now,       \* the clock read by performance.now()
  hurts,     \* history: how many hurt() events have fired
  call,      \* history: the last call of a query function and its result
  dragging,  \* a drag is active
  lastTouch, \* the last pointer position <<x, y>>, or << >> for null
  running,   \* Variant B: the tick loop has been started
  won,       \* Variant B: the goal latch
  inputSetup, \* the pointer listeners are installed
  queuedDir, \* Variant A: the queued direction, or -1 for null
  raf,       \* the animation-frame callbacks registered for the next frame
  frame,     \* the callbacks of the frame being run that have not run yet
  timers,    \* pending setTimeout(startGame, 900) timers
  goals,     \* history: onGoal calls since the last startGame
  levels     \* history: startGame calls so far

genVars == <<maze, stack, visited, rand, pc, seed, prev, pushes, pops>>
hurtVars == <<lastHurtAt, now, hurts>>
loopVars ==
  <<dragging, lastTouch, running, won, inputSetup, queuedDir, raf, frame,
    timers, goals, levels>>
gameVars == <<canvas, metrics, player, hurtVars, call, loopVars>>
vars == <<genVars, gameVars>>

(***************************************************************************)
(* Bounds of the model.                                                    *)
(***************************************************************************)
MaxCols == 3
MaxRows == 3

(***************************************************************************)
(* Cell (main.js 449-457): the passage mask and its two bit operations.    *)
(***************************************************************************)
Pow2(n) == IF n = 0 THEN 1 ELSE IF n = 1 THEN 2 ELSE IF n = 2 THEN 4 ELSE 8

\* Cell.isOpen(dir): (passages & (1 << dir)) !== 0
isOpen(passages, dir) == (passages \div Pow2(dir)) % 2 = 1

\* Cell.open(dir): passages |= (1 << dir)
open(passages, dir) ==
  IF isOpen(passages, dir) THEN passages ELSE passages + Pow2(dir)

(***************************************************************************)
(* Maze (main.js 389-447).                                                 *)
(***************************************************************************)
\* Maze.idx(x, y)
idx(m, x, y) == y * m.cols + x

\* new Maze(cols, rows): every cell starts with passages = 0
NewMaze(cols, rows) ==
  [cols |-> cols, rows |-> rows,
   grid |-> [i \in 0..(cols * rows - 1) |-> 0],
   start |-> <<0, 0>>, goal |-> <<cols - 1, rows - 1>>]

\* neighbors without its bottom branch (line 404 dropped)
neighborsNoBottom(m, x, y) ==
  (IF y > 0 THEN << [x |-> x, y |-> y - 1, dir |-> 0] >> ELSE << >>)
  \o (IF x < m.cols - 1 THEN << [x |-> x + 1, y |-> y, dir |-> 1] >> ELSE << >>)
  \o (IF x > 0 THEN << [x |-> x - 1, y |-> y, dir |-> 3] >> ELSE << >>)

\* Maze.neighbors(x, y): the in-grid neighbours in the order top, right,
\* bottom, left
neighbors(m, x, y) ==
  (IF y > 0 THEN << [x |-> x, y |-> y - 1, dir |-> 0] >> ELSE << >>)
  \o (IF x < m.cols - 1 THEN << [x |-> x + 1, y |-> y, dir |-> 1] >> ELSE << >>)
  \o (IF y < m.rows - 1 THEN << [x |-> x, y |-> y + 1, dir |-> 2] >> ELSE << >>)
  \o (IF x > 0 THEN << [x |-> x - 1, y |-> y, dir |-> 3] >> ELSE << >>)

\* the neighbour's side written with (n.dir + 1) % 4
OppositeDirOffByOne(dir) == (dir + 1) % 4

\* the direction written on the neighbour's side of a carved passage:
\* (n.dir + 2) % 4
OppositeDir(dir) == (dir + 2) % 4

\* line 420 without its filter: every neighbour counts as unvisited
UnvisitedUnfiltered(m, vis, x, y) == neighbors(m, x, y)

\* generate, line 420: the neighbours of the stack top that are not visited
Unvisited(m, vis, x, y) ==
  LET keep(n) == idx(m, n.x, n.y) \notin vis
  IN  SelectSeq(neighbors(m, x, y), keep)

\* generate, lines 424-429: carve the passage between cell c and neighbour n
Carve(m, cx, cy, n) ==
  LET cIdx == idx(m, cx, cy)
      nIdx == idx(m, n.x, n.y)
      g1 == [m.grid EXCEPT ![cIdx] = open(@, n.dir)]
      g2 == [g1 EXCEPT ![nIdx] = open(@, OppositeDir(n.dir))]
  IN  [m EXCEPT !.grid = g2]

(***************************************************************************)
(* 32-bit words (main.js 521-528).  A word is <<hi, lo>>, its two 16-bit   *)
(* halves, so that every intermediate value stays below 2^31.  Bitwise     *)
(* operators of JavaScript act on the value modulo 2^32, which is what     *)
(* the halves hold.                                                        *)
(***************************************************************************)
W16 == 256 * 256

RECURSIVE Xor16(_, _, _)
Xor16(a, b, n) ==
  IF n = 0 THEN 0
  ELSE (((a % 2) + (b % 2)) % 2) + 2 * Xor16(a \div 2, b \div 2, n - 1)

RECURSIVE Or16(_, _, _)
Or16(a, b, n) ==
  IF n = 0 THEN 0
  ELSE (IF a % 2 = 1 \/ b % 2 = 1 THEN 1 ELSE 0)
       + 2 * Or16(a \div 2, b \div 2, n - 1)

RECURSIVE Pow(_, _)
Pow(b, n) == IF n = 0 THEN 1 ELSE b * Pow(b, n - 1)

\* x ^ y
Xor32(x, y) == << Xor16(x[1], y[1], 16), Xor16(x[2], y[2], 16) >>

\* x | k for a constant k < 2^16
OrLow(x, k) == << x[1], Or16(x[2], k, 16) >>

\* x >>> n for 0 < n < 16
Shr(x, n) ==
  << x[1] \div Pow(2, n),
     (x[2] \div Pow(2, n)) + (x[1] % Pow(2, n)) * Pow(2, 16 - n) >>

\* (x + y) modulo 2^32
Add32(x, y) ==
  LET lo == x[2] + y[2]
  IN  << (x[1] + y[1] + lo \div W16) % W16, lo % W16 >>

\* the full product of two 16-bit numbers as a word
Mul16(a, b) ==
  LET p0 == (a % 256) * b
      p1 == (a \div 256) * b
      s  == p0 + (p1 % 256) * 256
  IN  << (p1 \div 256 + s \div W16) % W16, s % W16 >>

\* Math.imul(x, y): the low 32 bits of the product
imul(x, y) ==
  LET ll == Mul16(x[2], y[2])
      hl == Mul16(x[1], y[2])[2]
      lh == Mul16(x[2], y[1])[2]
  IN  << (ll[1] + hl + lh) % W16, ll[2] >>

\* 0x6D2B79F5
Mulberry == << 27947, 31221 >>

\* a generator whose state is shared by all runs instead of seeded per call
mulberry32Shared(a) == rand

\* mulberry32(a): the closure captures a; seed >>> 0 is the seed itself
mulberry32(a) == a

\* one call of the closure: the new state a and the 32-bit numerator u of
\* the returned fraction u / 4294967296
randNext(a) ==
  LET a1 == Add32(a, Mulberry)
      t1 == imul(Xor32(a1, Shr(a1, 15)), OrLow(a1, 1))
      t2 == Xor32(t1, Add32(t1, imul(Xor32(t1, Shr(t1, 7)), OrLow(t1, 61))))
  IN  [a |-> a1, u |-> Xor32(t2, Shr(t2, 14))]

\* Math.floor(rand() * n) for the fraction u / 2^32 and 0 < n <= 4
floorTimes(u, n) == (u[1] * n + (u[2] * n) \div W16) \div W16

(***************************************************************************)
(* Maze.generate (main.js 409-435), one action per loop iteration.         *)
(***************************************************************************)
Top(s) == s[Len(s)]
\* line 421 emptying the stack instead of popping its top
PopAll(s) == << >>
\* line 421: stack.pop()
Pop(s) == SubSeq(s, 1, Len(s) - 1)

\* lines 419-420: the unvisited neighbours of the current stack top
TopUnvisited ==
  Unvisited(maze, visited, Top(stack)[1], Top(stack)[2])

\* lines 411-416: seed the generator, push and mark the start cell
GenBegin ==
  /\ pc = "new"
  /\ rand' = mulberry32(seed)
  /\ stack' = << <<0, 0>> >>
  /\ visited' = {idx(maze, 0, 0)}
  /\ pushes' = [pushes EXCEPT ![idx(maze, 0, 0)] = @ + 1]
  /\ pc' = "loop"
  /\ UNCHANGED <<maze, seed, prev, pops, gameVars>>

\* line 421: no unvisited neighbour, backtrack
GenPop ==
  /\ pc = "loop"
  /\ Len(stack) > 0
  /\ Len(TopUnvisited) = 0
  /\ stack' = Pop(stack)
  /\ pops' = [pops EXCEPT ![idx(maze, Top(stack)[1], Top(stack)[2])] = @ + 1]
  /\ UNCHANGED <<maze, visited, rand, pc, seed, prev, pushes, gameVars>>

\* lines 422-431 for the neighbour n == unvisited[k - 1]
CarveStep(k) ==
  LET n == TopUnvisited[k]
  IN  /\ maze' = Carve(maze, Top(stack)[1], Top(stack)[2], n)
      /\ visited' = visited \cup {idx(maze, n.x, n.y)}
      /\ stack' = Append(stack, <<n.x, n.y>>)
      /\ pushes' = [pushes EXCEPT ![idx(maze, n.x, n.y)] = @ + 1]
      /\ UNCHANGED <<pc, seed, prev, pops, gameVars>>

\* line 422 with the seeded generator: k - 1 == floor(rand() * length)
GenCarve ==
  /\ pc = "loop"
  /\ Len(stack) > 0
  /\ Len(TopUnvisited) > 0
  /\ LET r == randNext(rand)
     IN  /\ rand' = r.a
         /\ CarveStep(floorTimes(r.u, Len(TopUnvisited)) + 1)

\* line 422 for an arbitrary random sequence: any index may be drawn
GenCarveAny ==
  /\ pc = "loop"
  /\ Len(stack) > 0
  /\ Len(TopUnvisited) > 0
  /\ \E k \in 1..Len(TopUnvisited) : CarveStep(k)
  /\ UNCHANGED rand

\* lines 418, 434: the stack is empty, set the goal and return
GenReturn ==
  /\ pc = "loop"
  /\ Len(stack) = 0
  /\ maze' = [maze EXCEPT !.goal = <<maze.cols - 1, maze.rows - 1>>]
  /\ pc' = "done"
  /\ UNCHANGED <<stack, visited, rand, seed, prev, pushes, pops, gameVars>>

\* a second freshly constructed Maze of the same size, generated from the
\* same seed; the first run's masks are kept for comparison
Regenerate ==
  /\ pc = "done"
  /\ prev = << >>
  /\ prev' = << maze.grid >>
  /\ maze' = NewMaze(maze.cols, maze.rows)
  /\ stack' = << >>
  /\ visited' = {}
  /\ pushes' = [i \in DOMAIN pushes |-> 0]
  /\ pops' = [i \in DOMAIN pops |-> 0]
  /\ pc' = "new"
  /\ UNCHANGED <<rand, seed, gameVars>>

\* seeds: 0, 1, 42, 0xFFFFFFFF and Date.now() >>> 0 of 2024-10-27
Seeds == { <<0, 0>>, <<0, 1>>, <<0, 42>>, <<65535, 65535>>, <<52233, 5120>> }

\* the state after new Maze(cols, rows), before generate is called
GenInit(seeds) ==
  /\ \E c \in 1..MaxCols, r \in 1..MaxRows :
       /\ maze = NewMaze(c, r)
       /\ pushes = [i \in 0..(c * r - 1) |-> 0]
       /\ pops = [i \in 0..(c * r - 1) |-> 0]
  /\ stack = << >>
  /\ visited = {}
  /\ rand = <<0, 0>>
  /\ pc = "new"
  /\ seed \in seeds
  /\ prev = << >>

\* the module-level state before any game is started (main.js 72-80)
player0 ==
  [cellX |-> 0, cellY |-> 0, x |-> 0, y |-> 0, targetX |-> 0, targetY |-> 0,
   radius |-> 16, moving |-> FALSE, hurtFlash |-> 0]

NoMetrics == [cellSize |-> 0, originX |-> 0, originY |-> 0]

LoopIdle ==
  /\ dragging = FALSE
  /\ lastTouch = << >>
  /\ running = FALSE
  /\ won = FALSE
  /\ inputSetup = FALSE
  /\ queuedDir = -1
  /\ raf = << >>
  /\ frame = << >>
  /\ timers = 0
  /\ goals = 0
  /\ levels = 0

GameIdle ==
  /\ canvas = [w |-> 0, h |-> 0]
  /\ metrics = NoMetrics
  /\ player = player0
  /\ lastHurtAt = 0
  /\ now = 0
  /\ hurts = 0
  /\ call = [fn |-> "none"]
  /\ LoopIdle


\* generation under every sequence of random choices
InitGen == GenInit({ <<0, 0>> }) /\ GameIdle
NextGen == GenBegin \/ GenPop \/ GenCarveAny \/ GenReturn
SpecGen == InitGen /\ [][NextGen]_vars

\* generate is one synchronous call: its loop keeps running until it returns
FairGen == SpecGen /\ WF_vars(NextGen)

\* generation with the seeded generator, run twice with the same arguments
InitSeeded == GenInit(Seeds) /\ GameIdle
NextSeeded == GenBegin \/ GenPop \/ GenCarve \/ GenReturn \/ Regenerate
SpecSeeded == InitSeeded /\ [][NextSeeded]_vars

(***************************************************************************)
(* Maze.canMove (main.js 437-446).  grid[idx] is undefined when the index  *)
(* is outside the array, and c.isOpen on undefined throws a TypeError.     *)
(***************************************************************************)
canMoveThrows(m, x, y) == idx(m, x, y) \notin DOMAIN m.grid

\* canMove without its four boundary tests (lines 441-444 dropped)
canMoveMaskOnly(m, x, y, dir) == isOpen(m.grid[idx(m, x, y)], dir)

\* the value canMove returns when it does not throw
canMove(m, x, y, dir) ==
  LET c == m.grid[idx(m, x, y)]
  IN  IF ~isOpen(c, dir) THEN FALSE
      ELSE IF dir = 0 /\ y <= 0 THEN FALSE
      ELSE IF dir = 1 /\ x >= m.cols - 1 THEN FALSE
      ELSE IF dir = 2 /\ y >= m.rows - 1 THEN FALSE
      ELSE IF dir = 3 /\ x <= 0 THEN FALSE
      ELSE TRUE

(***************************************************************************)
(* Layout (drawMaze, main.js 459-510; cellCenter 114-117; cellFromPoint    *)
(* 214-220).  The canvas sizes of the model are those for which cellSize   *)
(* is an even integer and the origin an integer, so that the quotients     *)
(* below are exact.                                                        *)
(***************************************************************************)
Padding == 16
Min(a, b) == IF a < b THEN a ELSE b
Max(a, b) == IF a > b THEN a ELSE b
Abs(a) == IF a < 0 THEN -a ELSE a

drawMaze(m, cv) ==
  LET cellSize == (Min(cv.w, cv.h) - Padding * 2) \div Max(m.cols, m.rows)
  IN  [cellSize |-> cellSize,
       originX |-> (cv.w - cellSize * m.cols) \div 2,
       originY |-> (cv.h - cellSize * m.rows) \div 2]

OnLattice(m, cv) ==
  /\ Min(cv.w, cv.h) - Padding * 2 > 0
  /\ (Min(cv.w, cv.h) - Padding * 2) % (2 * Max(m.cols, m.rows)) = 0
  /\ (cv.w - drawMaze(m, cv).cellSize * m.cols) % 2 = 0
  /\ (cv.h - drawMaze(m, cv).cellSize * m.rows) % 2 = 0

\* cellCenter without the half cell of line 116
cellCenterCorner(mt, cx, cy) ==
  << mt.originX + cx * mt.cellSize, mt.originY + cy * mt.cellSize >>

\* cellCenter (main.js 114-117)
cellCenter(mt, cx, cy) ==
  << mt.originX + cx * mt.cellSize + mt.cellSize \div 2,
     mt.originY + cy * mt.cellSize + mt.cellSize \div 2 >>

\* cellFromPoint with Math.round in place of Math.floor
cellFromPointRounded(m, mt, px, py) ==
  LET x == (2 * (px - mt.originX) + mt.cellSize) \div (2 * mt.cellSize)
      y == (2 * (py - mt.originY) + mt.cellSize) \div (2 * mt.cellSize)
  IN  IF x < 0 \/ y < 0 \/ x >= m.cols \/ y >= m.rows THEN << >> ELSE <<x, y>>

\* cellFromPoint: the cell <<x, y>>, or << >> for null
cellFromPoint(m, mt, px, py) ==
  LET x == (px - mt.originX) \div mt.cellSize
      y == (py - mt.originY) \div mt.cellSize
  IN  IF x < 0 \/ y < 0 \/ x >= m.cols \/ y >= m.rows THEN << >> ELSE <<x, y>>

(***************************************************************************)
(* Variant B resolver (main.js 189-212).                                   *)
(***************************************************************************)
\* canTraverse without the test of line 209
canTraverseNoJumpTest(m, mt, x1, y1, x2, y2) ==
  LET a == cellFromPoint(m, mt, x1, y1)
      b == cellFromPoint(m, mt, x2, y2)
  IN  IF a = << >> \/ b = << >> THEN FALSE
      ELSE IF a = b THEN TRUE
      ELSE LET dx == b[1] - a[1]
               dy == b[2] - a[2]
               dir == IF dx = 1 THEN 1 ELSE IF dx = -1 THEN 3
                      ELSE IF dy = 1 THEN 2 ELSE 0
           IN  canMove(m, a[1], a[2], dir)

canTraverse(m, mt, x1, y1, x2, y2) ==
  LET a == cellFromPoint(m, mt, x1, y1)
      b == cellFromPoint(m, mt, x2, y2)
  IN  IF a = << >> \/ b = << >> THEN FALSE
      ELSE IF a = b THEN TRUE
      ELSE LET dx == b[1] - a[1]
               dy == b[2] - a[2]
               dir == IF dx = 1 THEN 1 ELSE IF dx = -1 THEN 3
                      ELSE IF dy = 1 THEN 2 ELSE 0
           IN  IF Abs(dx) + Abs(dy) # 1 THEN FALSE
               ELSE canMove(m, a[1], a[2], dir)

\* attemptMove reaches line 199: all three candidates are rejected
attemptMoveBlocked(m, mt, cx, cy, dx, dy) ==
  /\ ~canTraverse(m, mt, cx, cy, cx + dx, cy + dy)
  /\ ~canTraverse(m, mt, cx, cy, cx + dx, cy)
  /\ ~canTraverse(m, mt, cx, cy, cx, cy + dy)

\* attemptMove that tries the Y slide before the X slide
attemptMoveYFirst(m, mt, cx, cy, dx, dy) ==
  IF canTraverse(m, mt, cx, cy, cx + dx, cy + dy) THEN <<cx + dx, cy + dy>>
  ELSE IF canTraverse(m, mt, cx, cy, cx, cy + dy) THEN <<cx, cy + dy>>
  ELSE IF canTraverse(m, mt, cx, cy, cx + dx, cy) THEN <<cx + dx, cy>>
  ELSE <<cx, cy>>

\* attemptMove whose Y slide is taken without asking canTraverse
attemptMoveSlideUnchecked(m, mt, cx, cy, dx, dy) ==
  IF canTraverse(m, mt, cx, cy, cx + dx, cy + dy) THEN <<cx + dx, cy + dy>>
  ELSE IF canTraverse(m, mt, cx, cy, cx + dx, cy) THEN <<cx + dx, cy>>
  ELSE <<cx, cy + dy>>

\* the position attemptMove returns
attemptMove(m, mt, cx, cy, dx, dy) ==
  IF canTraverse(m, mt, cx, cy, cx + dx, cy + dy) THEN <<cx + dx, cy + dy>>
  ELSE IF canTraverse(m, mt, cx, cy, cx + dx, cy) THEN <<cx + dx, cy>>
  ELSE IF canTraverse(m, mt, cx, cy, cx, cy + dy) THEN <<cx, cy + dy>>
  ELSE <<cx, cy>>

(***************************************************************************)
(* The per-tick speed of Variant B (main.js 164).                           *)
(***************************************************************************)
speedB(mt) == Max(3, (mt.cellSize * 32) \div 100)

(***************************************************************************)
(* Feedback (main.js 222-237, 274-286).  drawAll recomputes the metrics    *)
(* and counts the hurt flash down; hurt sets the flash and redraws.        *)
(***************************************************************************)
HurtWindow == 220
HurtFrames == 8

drawAllPlayer(p) ==
  IF p.hurtFlash > 0 THEN [p EXCEPT !.hurtFlash = @ - 1] ELSE p

\* maybeHurt, line 283, with a window test that admits equality
maybeHurtFiresInclusive(t, last) == t - last >= HurtWindow

\* maybeHurt, line 283: whether hurt() is called at clock time t
maybeHurtFires(t, last) == t - last > HurtWindow

\* hurt (lines 274-279): set the flash, then drawAll counts it down once
hurt(p) == drawAllPlayer([p EXCEPT !.hurtFlash = HurtFrames])

\* maybeHurt (and hurt, drawAll under it) applied to the player record p
maybeHurt(p) ==
  /\ IF maybeHurtFires(now, lastHurtAt)
       THEN /\ lastHurtAt' = now
            /\ player' = hurt(p)
            /\ metrics' = drawMaze(maze, canvas)
            /\ hurts' = hurts + 1
       ELSE /\ player' = p
            /\ UNCHANGED <<lastHurtAt, metrics, hurts>>

(***************************************************************************)
(* generate run to completion, for every sequence of random choices: the   *)
(* set of mazes a call of generate on a fresh cols x rows maze can return. *)
(***************************************************************************)
RECURSIVE GenRuns(_, _, _)
GenRuns(m, stk, vis) ==
  IF Len(stk) = 0 THEN { [m EXCEPT !.goal = <<m.cols - 1, m.rows - 1>>] }
  ELSE LET cur == Top(stk)
           unv == Unvisited(m, vis, cur[1], cur[2])
       IN  IF Len(unv) = 0 THEN GenRuns(m, Pop(stk), vis)
           ELSE UNION { GenRuns(Carve(m, cur[1], cur[2], unv[k]),
                                Append(stk, <<unv[k].x, unv[k].y>>),
                                vis \cup {idx(m, unv[k].x, unv[k].y)}) :
                        k \in 1..Len(unv) }

generateAny(cols, rows) ==
  GenRuns(NewMaze(cols, rows), << <<0, 0>> >>, {0})

(***************************************************************************)
(* The query functions on bounded inputs: canMove, canTraverse and         *)
(* attemptMove are called on generated mazes and on mazes in which one     *)
(* cell carries an arbitrary mask, with 2-pixel cells; each behaviour makes *)
(* one call.                                                               *)
(***************************************************************************)
FnMaxCols == 2
FnMaxRows == 2

OneCellMazes(cols, rows) ==
  { [NewMaze(cols, rows) EXCEPT
       !.grid = [i \in 0..(cols * rows - 1) |-> IF i = j THEN mask ELSE 0]] :
    j \in 0..(cols * rows - 1), mask \in 0..15 }

FnMazes ==
  OneCellMazes(FnMaxCols, FnMaxRows)
  \cup UNION { generateAny(d[1], d[2]) : d \in (1..FnMaxCols) \X (1..FnMaxRows) }

\* the square canvas on which the cells of m are 2 pixels wide
FnCanvas(m) ==
  [w |-> Padding * 2 + 2 * Max(m.cols, m.rows),
   h |-> Padding * 2 + 2 * Max(m.cols, m.rows)]

\* pixel coordinates from one pixel before the grid to one pixel after it
FnXs == (metrics.originX - 1)..(metrics.originX + maze.cols * metrics.cellSize)
FnYs == (metrics.originY - 1)..(metrics.originY + maze.rows * metrics.cellSize)

\* the components of a step of at most the per-tick speed (main.js 170-172)
FnSteps == (-speedB(metrics))..speedB(metrics)

GenIdle ==
  /\ stack = << >>
  /\ visited = {}
  /\ rand = <<0, 0>>
  /\ pc = "done"
  /\ seed = <<0, 0>>
  /\ prev = << >>
  /\ pushes = << >>
  /\ pops = << >>

InitFn ==
  /\ maze \in FnMazes
  /\ GenIdle
  /\ canvas = FnCanvas(maze)
  /\ metrics = drawMaze(maze, canvas)
  /\ player = player0
  /\ lastHurtAt = 0
  /\ now = HurtWindow + 1
  /\ hurts = 0
  /\ call = [fn |-> "none"]
  /\ LoopIdle

CallCanMove ==
  /\ call.fn = "none"
  /\ \E x \in -1..maze.cols, y \in -1..maze.rows, dir \in 0..3 :
    /\ call' = [fn |-> "canMove", x |-> x, y |-> y, dir |-> dir,
                threw |-> canMoveThrows(maze, x, y),
                result |-> IF canMoveThrows(maze, x, y) THEN FALSE
                           ELSE canMove(maze, x, y, dir)]
    /\ UNCHANGED <<genVars, canvas, metrics, player, hurtVars, loopVars>>

CallCanTraverse ==
  /\ call.fn = "none"
  /\ \E x1 \in FnXs, y1 \in FnYs, x2 \in FnXs, y2 \in FnYs :
    /\ call' = [fn |-> "canTraverse", x1 |-> x1, y1 |-> y1,
                x2 |-> x2, y2 |-> y2,
                result |-> canTraverse(maze, metrics, x1, y1, x2, y2)]
    /\ UNCHANGED <<genVars, canvas, metrics, player, hurtVars, loopVars>>

CallAttemptMove ==
  /\ call.fn = "none"
  /\ \E cx \in FnXs, cy \in FnYs,
        dx \in FnSteps, dy \in FnSteps :
    /\ call' = [fn |-> "attemptMove", cx |-> cx, cy |-> cy,
                dx |-> dx, dy |-> dy,
                blocked |-> attemptMoveBlocked(maze, metrics, cx, cy, dx, dy),
                result |-> attemptMove(maze, metrics, cx, cy, dx, dy)]
    /\ IF attemptMoveBlocked(maze, metrics, cx, cy, dx, dy)
         THEN maybeHurt(player)
         ELSE UNCHANGED <<player, metrics, lastHurtAt, hurts>>
    /\ UNCHANGED <<genVars, canvas, now, loopVars>>

NextFn == CallCanMove \/ CallCanTraverse \/ CallAttemptMove
SpecFn == InitFn /\ [][NextFn]_vars

(***************************************************************************)
(* The game, parts common to both variants.                                *)
(*                                                                         *)
(* The difficulty table (main.js 104-112) yields sizes 5, 7, 9 and 12; the *)
(* model plays on LevelSize x LevelSize mazes, the smallest square maze    *)
(* whose start and goal differ.  The canvas is the square one on which     *)
(* the cells are CellPx pixels wide.                                       *)
(*                                                                         *)
(* Scheduling.  requestAnimationFrame appends a callback to raf.  A frame  *)
(* runs, in registration order, the callbacks that were registered before  *)
(* it began; callbacks registered meanwhile wait for the next frame.       *)
(* Pointer events, timers and clicks are tasks of the same event loop and  *)
(* run between frames, never between two callbacks of one frame.           *)
(***************************************************************************)
LevelSize == 2
MaxLevels == 2
CellPx == 2

NoMaze ==
  [cols |-> 0, rows |-> 0, grid |-> << >>, start |-> <<0, 0>>,
   goal |-> <<-1, -1>>]

\* the mazes startGame can build: conf.size squared, any seed
LevelMazes == generateAny(LevelSize, LevelSize)

\* fitCanvas (main.js 376-382): the canvas takes the size of its wrapper
GameCanvas ==
  [w |-> Padding * 2 + CellPx * LevelSize, h |-> Padding * 2 + CellPx * LevelSize]

\* a registered callback: kind is "tick", "jump" or "step"; t and startY
\* are the locals of a jump closure, speed the local of an animate closure,
\* id tells that rafId holds this callback's handle
Callback(kind, t, startY, speed, id) ==
  [kind |-> kind, t |-> t, startY |-> startY, speed |-> speed, id |-> id]

\* the callbacks still to run in the current frame; a new frame takes all
\* of raf
Due == IF frame # << >> THEN frame ELSE raf
\* what is registered for the next frame while Head(Due) runs
Later == IF frame # << >> THEN raf ELSE << >>
BetweenFrames == frame = << >>

\* player.radius of Variant B (main.js 95)
radiusB(mt) == Max(10, (mt.cellSize * 24) \div 100)

\* withinPlayer (main.js 132-135): dx*dx + dy*dy <= radius*radius*1.6
withinPlayer(p, x, y) ==
  10 * ((x - p.x) * (x - p.x) + (y - p.y) * (y - p.y))
    <= 16 * p.radius * p.radius

\* pointer positions delivered by canvasPoint: the centre of the start
\* cell and points outside the grid on either side of it, per axis
PointerXs ==
  { metrics.originX - 2, cellCenter(metrics, 0, 0)[1],
    metrics.originX + maze.cols * metrics.cellSize + 1 }
PointerYs ==
  { metrics.originY - 2, cellCenter(metrics, 0, 0)[2],
    metrics.originY + maze.rows * metrics.cellSize + 1 }

\* onStart (main.js 146-151)
OnStart ==
  /\ inputSetup
  /\ BetweenFrames
  /\ \E x \in PointerXs, y \in PointerYs :
       /\ withinPlayer(player, x, y)
       /\ dragging' = TRUE
       /\ lastTouch' = <<x, y>>
  /\ UNCHANGED <<genVars, canvas, metrics, player, hurtVars, call, running,
                 won, inputSetup, queuedDir, raf, frame, timers, goals, levels>>

\* onEnd (main.js 158)
OnEnd ==
  /\ inputSetup
  /\ BetweenFrames
  /\ dragging' = FALSE
  /\ lastTouch' = << >>
  /\ UNCHANGED <<genVars, canvas, metrics, player, hurtVars, call, running,
                 won, inputSetup, queuedDir, raf, frame, timers, goals, levels>>

(***************************************************************************)
(* The jump animation of onGoal (main.js 258-269).  sin(t * PI / 22) is    *)
(* tabulated in units of 1/10000; the new y is rounded to the lattice.     *)
(***************************************************************************)
JumpT == 22
JumpSin ==
  << 1423, 2817, 4154, 5406, 6549, 7557, 8413, 9096, 9595, 9898, 10000,
     9898, 9595, 9096, 8413, 7557, 6549, 5406, 4154, 2817, 1423, 0 >>

\* Math.sin(k * Math.PI) * (player.radius * 0.8), to the nearest pixel
jumpOffset(t, radius) == (JumpSin[t] * radius * 8 + 50000) \div 100000

\* the callback jump() registers (lines 259, 267)
NewJump(p) == Callback("jump", 0, p.y, 0, FALSE)

\* the step callback of a jump (lines 260-266)
JumpStep ==
  /\ Due # << >>
  /\ Head(Due).kind = "jump"
  /\ LET j == Head(Due)
         t == j.t + 1
     IN  /\ player' = drawAllPlayer(
                        [player EXCEPT !.y = j.startY - jumpOffset(t, player.radius)])
         /\ metrics' = drawMaze(maze, canvas)
         /\ frame' = Tail(Due)
         /\ raf' = IF t < JumpT THEN Append(Later, [j EXCEPT !.t = t]) ELSE Later
  /\ UNCHANGED <<genVars, canvas, hurtVars, call, dragging, lastTouch, running,
                 won, inputSetup, queuedDir, timers, goals, levels>>

(***************************************************************************)
(* Variant B (src/src/main.js): continuous movement.                       *)
(***************************************************************************)
\* the components (vx / dist) * step of a tick's step, rounded to the
\* lattice either way; dist is Math.hypot(vx, vy), step is min(speed, dist)
Sgn(a) == IF a < 0 THEN -1 ELSE IF a > 0 THEN 1 ELSE 0

StepComponents(v, w, speed) ==
  LET D == v * v + w * w
  IN  IF D <= speed * speed THEN {v}
      ELSE { Sgn(v) * k : k \in
               { k \in 0..speed :
                   /\ (k + 1) * (k + 1) * D > v * v * speed * speed
                   /\ (k = 0 \/ (k - 1) * (k - 1) * D < v * v * speed * speed) } }

\* line 181 without the latch
goalFiresUnlatched(w, p, m) == p.cellX = m.goal[1] /\ p.cellY = m.goal[2]

\* line 181: the goal event fires
goalFires(w, p, m) == ~w /\ p.cellX = m.goal[1] /\ p.cellY = m.goal[2]

\* startGame whose startLoop registers a tick even when the loop is running
StartGameBAlwaysSchedules ==
  /\ levels < MaxLevels
  /\ BetweenFrames
  /\ \E m \in LevelMazes :
       LET mt == drawMaze(m, GameCanvas)
           c == cellCenter(mt, m.start[1], m.start[2])
           p0 == IF maze.cols > 0 THEN drawAllPlayer(player) ELSE player
           p1 == [p0 EXCEPT !.cellX = m.start[1], !.cellY = m.start[2],
                            !.x = c[1], !.y = c[2], !.radius = radiusB(mt)]
       IN  /\ canvas' = GameCanvas
           /\ maze' = m
           /\ metrics' = mt
           /\ player' = drawAllPlayer(p1)
  /\ won' = FALSE
  /\ inputSetup' = TRUE
  /\ running' = TRUE
  /\ raf' = Append(raf, Callback("tick", 0, 0, 0, TRUE))
  /\ goals' = 0
  /\ levels' = levels + 1
  /\ UNCHANGED <<stack, visited, rand, pc, seed, prev, pushes, pops, hurtVars,
                 call, dragging, lastTouch, queuedDir, frame>>

\* startGame of Variant B (main.js 82-102), called from the UI or the timer
StartGameB ==
  /\ levels < MaxLevels
  /\ BetweenFrames
  /\ \E m \in LevelMazes :
       LET mt == drawMaze(m, GameCanvas)
           c == cellCenter(mt, m.start[1], m.start[2])
           p0 == IF maze.cols > 0 THEN drawAllPlayer(player) ELSE player
           p1 == [p0 EXCEPT !.cellX = m.start[1], !.cellY = m.start[2],
                            !.x = c[1], !.y = c[2], !.radius = radiusB(mt)]
       IN  /\ canvas' = GameCanvas
           /\ maze' = m
           /\ metrics' = mt
           /\ player' = drawAllPlayer(p1)
  /\ won' = FALSE
  /\ inputSetup' = TRUE
  /\ running' = TRUE
  /\ raf' = IF running THEN raf
            ELSE Append(raf, Callback("tick", 0, 0, 0, TRUE))
  /\ goals' = 0
  /\ levels' = levels + 1
  /\ UNCHANGED <<stack, visited, rand, pc, seed, prev, pushes, pops, hurtVars,
                 call, dragging, lastTouch, queuedDir, frame>>

\* the start button or the selection screen calls startGame
StartB == StartGameB /\ UNCHANGED timers

\* the timer set by onGoal calls startGame
TimerB == timers > 0 /\ timers' = timers - 1 /\ StartGameB

\* onMove of Variant B (main.js 152-157)
OnMoveB ==
  /\ inputSetup
  /\ BetweenFrames
  /\ dragging
  /\ \E x \in PointerXs, y \in PointerYs : lastTouch' = <<x, y>>
  /\ UNCHANGED <<genVars, canvas, metrics, player, hurtVars, call, dragging,
                 running, won, inputSetup, queuedDir, raf, frame, timers,
                 goals, levels>>

\* tick (main.js 162-185)
tick ==
  /\ Due # << >>
  /\ Head(Due).kind = "tick"
  /\ running
  /\ LET speed == speedB(metrics)
         drag == dragging /\ lastTouch # << >>
         vx == IF drag THEN lastTouch[1] - player.x ELSE 0
         vy == IF drag THEN lastTouch[2] - player.y ELSE 0
         moves == drag /\ vx * vx + vy * vy >= 1
     IN  \E dx \in StepComponents(vx, vy, speed),
            dy \in StepComponents(vy, vx, speed) :
         \E fires \in {moves /\ attemptMoveBlocked(maze, metrics,
                                  player.x, player.y, dx, dy)
                             /\ maybeHurtFires(now, lastHurtAt)} :
         \E res \in {IF moves
                       THEN attemptMove(maze, metrics, player.x, player.y, dx, dy)
                       ELSE <<player.x, player.y>>} :
         \E mt \in {IF fires THEN drawMaze(maze, canvas) ELSE metrics} :
         \E c \in {cellFromPoint(maze, mt, res[1], res[2])} :
         \E p4 \in {LET p1 == IF fires THEN hurt(player) ELSE player
                        p2 == [p1 EXCEPT !.x = res[1], !.y = res[2]]
                        p3 == IF c # << >>
                                THEN [p2 EXCEPT !.cellX = c[1], !.cellY = c[2]]
                                ELSE p2
                    IN  drawAllPlayer(p3)} :
         \E goal \in {goalFires(won, p4, maze)} :
           LET later == IF goal THEN Append(Later, NewJump(p4)) ELSE Later
           IN  /\ player' = p4
               /\ metrics' = drawMaze(maze, canvas)
               /\ lastHurtAt' = IF fires THEN now ELSE lastHurtAt
               /\ hurts' = IF fires THEN hurts + 1 ELSE hurts
               /\ won' = (won \/ goal)
               /\ goals' = IF goal THEN goals + 1 ELSE goals
               /\ timers' = IF goal THEN timers + 1 ELSE timers
               /\ frame' = Tail(Due)
               /\ raf' = Append(later, Head(Due))
  /\ UNCHANGED <<genVars, canvas, now, dragging, lastTouch, running,
                 inputSetup, queuedDir, levels>>

\* a frame of the game runs the tick callback
Tick == tick /\ UNCHANGED call

InitB == GenIdle /\ maze = NoMaze /\ GameIdle
NextB == StartB \/ TimerB \/ OnStart \/ OnMoveB \/ OnEnd \/ Tick \/ JumpStep
SpecB == InitB /\ [][NextB]_vars

(***************************************************************************)
(* Variant A (src/unnamed/part_000): whole-cell hops.                      *)
(***************************************************************************)
CellPxA == 10
MaxGoals == 2

\* fitCanvas for Variant A: cells CellPxA pixels wide, so that a hop takes
\* more than one animation step
GameCanvasA ==
  [w |-> Padding * 2 + CellPxA * LevelSize,
   h |-> Padding * 2 + CellPxA * LevelSize]

\* player.radius of Variant A (part_000 94)
radiusA(mt) == Max(10, (mt.cellSize * 28) \div 100)

\* the per-step speed of animate (part_000 185)
speedA(mt) == Max(4, (mt.cellSize * 24) \div 100)

\* the dominant axis with ties broken toward horizontal (>= in line 162)
dirTowardTieHorizontal(p, x, y) ==
  LET dx == x - p.x
      dy == y - p.y
  IN  IF Abs(dx) >= Abs(dy) THEN (IF dx > 0 THEN 1 ELSE 3)
      ELSE (IF dy > 0 THEN 2 ELSE 0)

\* the dominant axis direction (part_000 159-162, 198-199)
dirToward(p, x, y) ==
  LET dx == x - p.x
      dy == y - p.y
  IN  IF Abs(dx) > Abs(dy) THEN (IF dx > 0 THEN 1 ELSE 3)
      ELSE (IF dy > 0 THEN 2 ELSE 0)

\* the player after a hop toward dir has been started (part_000 175-179)
startHop(p, mt, dir) ==
  LET nx == p.cellX + (IF dir = 1 THEN 1 ELSE IF dir = 3 THEN -1 ELSE 0)
      ny == p.cellY + (IF dir = 2 THEN 1 ELSE IF dir = 0 THEN -1 ELSE 0)
      t == cellCenter(mt, nx, ny)
  IN  [p EXCEPT !.cellX = nx, !.cellY = ny, !.targetX = t[1],
                !.targetY = t[2], !.moving = TRUE]

\* cancelAnimationFrame(rafId): the callback rafId names is dropped
Cancel(q) == SelectSeq(q, LAMBDA c : ~c.id)
\* rafId is reassigned: no callback of q is the one it names
Unname(q) == [i \in 1..Len(q) |-> [q[i] EXCEPT !.id = FALSE]]

\* startGame of Variant A (part_000 81-99)
StartGameA ==
  /\ levels < MaxLevels
  /\ BetweenFrames
  /\ \E m \in LevelMazes :
       LET mt == drawMaze(m, GameCanvasA)
           c == cellCenter(mt, m.start[1], m.start[2])
           p0 == IF maze.cols > 0 THEN drawAllPlayer(player) ELSE player
           p1 == [p0 EXCEPT !.cellX = m.start[1], !.cellY = m.start[2],
                            !.x = c[1], !.y = c[2],
                            !.targetX = c[1], !.targetY = c[2],
                            !.radius = radiusA(mt)]
       IN  /\ canvas' = GameCanvasA
           /\ maze' = m
           /\ metrics' = mt
           /\ player' = drawAllPlayer(p1)
  /\ inputSetup' = TRUE
  /\ goals' = 0
  /\ levels' = levels + 1
  /\ UNCHANGED <<stack, visited, rand, pc, seed, prev, pushes, pops, hurtVars,
                 call, dragging, lastTouch, running, won, queuedDir, raf, frame>>

StartA == StartGameA /\ UNCHANGED timers
TimerA == timers > 0 /\ timers' = timers - 1 /\ StartGameA

\* onMove of Variant A (part_000 149-155) with tryStepToward (158-181) and
\* animate (183-185, 220)
onMoveA ==
  /\ inputSetup
  /\ BetweenFrames
  /\ dragging
  /\ \E x \in PointerXs, y \in PointerYs :
       LET dir == dirToward(player, x, y)
           ok == canMove(maze, player.cellX, player.cellY, dir)
       IN  /\ lastTouch' = <<x, y>>
           /\ IF player.moving
                THEN /\ IF ok
                          THEN /\ queuedDir' = dir
                               /\ UNCHANGED <<player, metrics, lastHurtAt, hurts>>
                          ELSE /\ maybeHurt(player)
                               /\ UNCHANGED queuedDir
                     /\ UNCHANGED raf
                ELSE IF ~ok
                  THEN /\ maybeHurt(player)
                       /\ UNCHANGED <<queuedDir, raf>>
                  ELSE /\ player' = startHop(player, metrics, dir)
                       /\ raf' = Append(Cancel(raf),
                                        Callback("step", 0, 0, speedA(metrics), TRUE))
                       /\ UNCHANGED <<queuedDir, metrics, lastHurtAt, hurts>>
  /\ UNCHANGED <<genVars, canvas, now, dragging, running, won,
                 inputSetup, frame, timers, goals, levels>>

\* a pointermove or touchmove event of Variant A
OnMoveA == onMoveA /\ UNCHANGED call

\* part_000 193: the goal event fires when a hop ends on the goal cell
goalFiresA(p, m) == p.cellX = m.goal[1] /\ p.cellY = m.goal[2]

\* the step callback of animate (part_000 186-219)
animateStep ==
  /\ Due # << >>
  /\ Head(Due).kind = "step"
  /\ goals < MaxGoals
  /\ LET speed == Head(Due).speed
         vx == player.targetX - player.x
         vy == player.targetY - player.y
     IN  IF vx * vx + vy * vy <= speed * speed
           THEN \* lines 190-212: the hop completes
             LET p1 == drawAllPlayer([player EXCEPT !.x = player.targetX,
                                       !.y = player.targetY, !.moving = FALSE])
                 goal == goalFiresA(p1, maze)
                 later == IF goal THEN Append(Later, NewJump(p1)) ELSE Later
                 drag == dragging /\ lastTouch # << >>
                 chain == queuedDir # -1 \/ drag
                 dir == IF queuedDir # -1 THEN queuedDir
                        ELSE IF drag THEN dirToward(p1, lastTouch[1], lastTouch[2])
                        ELSE -1
                 hop == chain /\ dir # -1
                          /\ canMove(maze, p1.cellX, p1.cellY, dir)
             IN  /\ metrics' = drawMaze(maze, canvas)
                 /\ goals' = IF goal THEN goals + 1 ELSE goals
                 /\ timers' = IF goal THEN timers + 1 ELSE timers
                 /\ queuedDir' = IF chain THEN -1 ELSE queuedDir
                 /\ player' = IF hop
                                THEN startHop(p1, drawMaze(maze, canvas), dir)
                                ELSE p1
                 /\ frame' = IF hop THEN Unname(Tail(Due)) ELSE Tail(Due)
                 /\ raf' = IF hop
                             THEN Append(Unname(later), [Head(Due) EXCEPT !.id = TRUE])
                             ELSE later
           ELSE \* lines 214-218: one step toward the target
             \E dx \in StepComponents(vx, vy, speed),
                dy \in StepComponents(vy, vx, speed) :
               /\ player' = drawAllPlayer([player EXCEPT !.x = @ + dx, !.y = @ + dy])
               /\ metrics' = drawMaze(maze, canvas)
               /\ frame' = Unname(Tail(Due))
               /\ raf' = Append(Unname(Later), [Head(Due) EXCEPT !.id = TRUE])
               /\ UNCHANGED <<goals, timers, queuedDir>>
  /\ UNCHANGED <<genVars, canvas, hurtVars, dragging, lastTouch, running,
                 won, inputSetup, levels>>

\* a frame of Variant A runs the pending step callback
HopStep == animateStep /\ UNCHANGED call

InitA == GenIdle /\ maze = NoMaze /\ GameIdle
NextA == StartA \/ TimerA \/ OnStart \/ OnMoveA \/ OnEnd \/ HopStep \/ JumpStep
SpecA == InitA /\ [][NextA]_vars

(***************************************************************************)
(* Variant A with the history of the direction queue: while a direction is *)
(* queued, call holds the level in which it was requested.                 *)
(***************************************************************************)
\* onMove; a request made while a hop is in flight and permitted by canMove
\* is the one tryStepToward queues (part_000 164-167)
QMove ==
  /\ onMoveA
  /\ call' = IF /\ player.moving
                /\ canMove(maze, player.cellX, player.cellY,
                           dirToward(player, lastTouch'[1], lastTouch'[2]))
               THEN [fn |-> "queued", level |-> levels]
               ELSE call

\* the step callback; the history ends when the queue is emptied (line 200)
QStep ==
  /\ animateStep
  /\ call' = IF queuedDir' = -1 THEN [fn |-> "none"] ELSE call

NextQ == StartA \/ TimerA \/ OnStart \/ QMove \/ OnEnd \/ QStep \/ JumpStep
SpecQ == InitA /\ [][NextQ]_vars

(***************************************************************************)
(* Blocked-move attempts against the clock: maybeHurt is called at         *)
(* non-decreasing clock times, and frames are drawn in between.            *)
(***************************************************************************)
MaxClock == 700

\* how far performance.now() advances between two events
ClockSteps == {HurtWindow \div 2, HurtWindow, HurtWindow + 1}

InitHurt ==
  /\ GenIdle
  /\ maze \in LevelMazes
  /\ canvas = GameCanvas
  /\ metrics = drawMaze(maze, canvas)
  /\ LET c == cellCenter(metrics, maze.start[1], maze.start[2])
     IN  player = [player0 EXCEPT !.cellX = maze.start[1],
                                  !.cellY = maze.start[2],
                                  !.x = c[1], !.y = c[2],
                                  !.radius = radiusB(metrics)]
  /\ lastHurtAt = 0
  /\ now = 0
  /\ hurts = 0
  /\ call = [fn |-> "none"]
  /\ LoopIdle

\* the clock performance.now() reads moves on
Tock ==
  /\ \E d \in ClockSteps :
       /\ now + d <= MaxClock
       /\ now' = now + d
  /\ UNCHANGED <<genVars, canvas, metrics, player, lastHurtAt, hurts, call,
                 loopVars>>

\* a blocked move calls maybeHurt (main.js 281-286, part_000 282-287)
CallMaybeHurt ==
  /\ maybeHurt(player)
  /\ call' = [fn |-> "maybeHurt", t |-> now, events |-> hurts,
              lastBefore |-> lastHurtAt, flashBefore |-> player.hurtFlash,
              lastAfter |-> lastHurtAt', flashAfter |-> player'.hurtFlash,
              fired |-> hurts' # hurts]
  /\ UNCHANGED <<genVars, canvas, now, loopVars>>

\* a frame is drawn: drawAll (main.js 222-237) counts the flash down
DrawAll ==
  /\ player.hurtFlash > 0
  /\ player' = drawAllPlayer(player)
  /\ metrics' = drawMaze(maze, canvas)
  /\ UNCHANGED <<genVars, canvas, hurtVars, call, loopVars>>

NextHurt == Tock \/ CallMaybeHurt \/ DrawAll
SpecHurt == InitHurt /\ [][NextHurt]_vars

(***************************************************************************)
(* The blocked-move scenario of Variant B: a level has started, the agent  *)
(* is at the centre of cell (0,0) and is dragged toward a point directly   *)
(* above it, outside the grid; ticks run while the clock moves on.         *)
(***************************************************************************)
ScnCellPx == 8

\* fitCanvas: the canvas sizes of the scenario, cells of CellPx and of
\* ScnCellPx pixels
ScnCanvases ==
  {GameCanvas,
   [w |-> Padding * 2 + ScnCellPx * LevelSize,
    h |-> Padding * 2 + ScnCellPx * LevelSize]}

InitScn ==
  /\ GenIdle
  /\ maze \in LevelMazes
  /\ canvas \in ScnCanvases
  /\ metrics = drawMaze(maze, canvas)
  /\ LET c == cellCenter(metrics, maze.start[1], maze.start[2])
     IN  /\ player = [player0 EXCEPT !.cellX = maze.start[1],
                                     !.cellY = maze.start[2],
                                     !.x = c[1], !.y = c[2],
                                     !.radius = radiusB(metrics)]
         /\ \E up \in 1..3 : lastTouch = <<c[1], metrics.originY - up>>
  /\ dragging = TRUE
  /\ running = TRUE
  /\ won = FALSE
  /\ inputSetup = TRUE
  /\ queuedDir = -1
  /\ raf = <<Callback("tick", 0, 0, 0, TRUE)>>
  /\ frame = << >>
  /\ timers = 0
  /\ goals = 0
  /\ levels = 1
  /\ lastHurtAt = 0
  /\ now = 0
  /\ hurts = 0
  /\ call = [fn |-> "none"]

\* one tick of the scenario (main.js 162-185); call records what the tick
\* was given: the clock, the position, and whether canTraverse rejected
\* the full step (vx = 0, so the step is straight up)
ScnTick ==
  /\ tick
  /\ LET dy == 0 - Min(speedB(metrics), player.y - lastTouch[2])
     IN  call' = [fn |-> "tick", t |-> now,
                  x |-> player.x, y |-> player.y,
                  rejected |-> ~canTraverse(maze, metrics, player.x, player.y,
                                            player.x, player.y + dy),
                  events |-> hurts, lastBefore |-> lastHurtAt]

NextScn == Tock \/ ScnTick
SpecScn == InitScn /\ [][NextScn]_vars

(***************************************************************************)
(* The coordinate mappings under arbitrary layout metrics.  cellSize is a  *)
(* quotient (main.js 464) and the centre of a cell lies half a cell from   *)
(* its corner, so lengths are counted in a unit that makes cellSize an     *)
(* even integer; origins are any integers of that unit.                    *)
(***************************************************************************)
RtMaxCell == 3
RtMaxOrigin == 2

RtMetrics ==
  [cellSize : {2 * k : k \in 1..RtMaxCell},
   originX : 0..RtMaxOrigin, originY : 0..RtMaxOrigin]

\* the mappings read only cols and rows of the maze (main.js 218)
RtMazes == { NewMaze(d[1], d[2]) : d \in (1..FnMaxCols) \X (1..FnMaxRows) }

InitRt ==
  /\ GenIdle
  /\ maze \in RtMazes
  /\ metrics \in RtMetrics
  /\ canvas = [w |-> 0, h |-> 0]
  /\ player = player0
  /\ lastHurtAt = 0
  /\ now = 0
  /\ hurts = 0
  /\ call = [fn |-> "none"]
  /\ LoopIdle

\* cellFromPoint(cellCenter(cx, cy)) for an in-range cell
CallRoundTrip ==
  /\ call.fn = "none"
  /\ \E cx \in 0..(maze.cols - 1), cy \in 0..(maze.rows - 1) :
       LET c == cellCenter(metrics, cx, cy)
       IN  call' = [fn |-> "roundTrip", cx |-> cx, cy |-> cy,
                    result |-> cellFromPoint(maze, metrics, c[1], c[2])]
  /\ UNCHANGED <<genVars, canvas, metrics, player, hurtVars, loopVars>>

\* cellFromPoint on points from one cell before the grid to one cell after
CallCellFromPoint ==
  /\ call.fn = "none"
  /\ \E px \in (metrics.originX - metrics.cellSize)..
                 (metrics.originX + (maze.cols + 1) * metrics.cellSize),
        py \in (metrics.originY - metrics.cellSize)..
                 (metrics.originY + (maze.rows + 1) * metrics.cellSize) :
       call' = [fn |-> "cellFromPoint", px |-> px, py |-> py,
                result |-> cellFromPoint(maze, metrics, px, py)]
  /\ UNCHANGED <<genVars, canvas, metrics, player, hurtVars, loopVars>>

NextRt == CallRoundTrip \/ CallCellFromPoint
SpecRt == InitRt /\ [][NextRt]_vars

(***************************************************************************)
(* Variant B under window resizes: one level, whose canvas changes size    *)
(* between frames.                                                         *)
(***************************************************************************)
RzCellPx == 4

\* fitCanvas: the canvas sizes the window takes, cells of CellPx and of
\* RzCellPx pixels
RzCanvases ==
  {GameCanvas,
   [w |-> Padding * 2 + RzCellPx * LevelSize,
    h |-> Padding * 2 + RzCellPx * LevelSize]}

\* a level of Variant B has just been started (main.js 82-102)
InitRz ==
  /\ GenIdle
  /\ maze \in LevelMazes
  /\ canvas = GameCanvas
  /\ metrics = drawMaze(maze, canvas)
  /\ LET c == cellCenter(metrics, maze.start[1], maze.start[2])
     IN  player = [player0 EXCEPT !.cellX = maze.start[1],
                                  !.cellY = maze.start[2],
                                  !.x = c[1], !.y = c[2],
                                  !.radius = radiusB(metrics)]
  /\ dragging = FALSE
  /\ lastTouch = << >>
  /\ running = TRUE
  /\ won = FALSE
  /\ inputSetup = TRUE
  /\ queuedDir = -1
  /\ raf = <<Callback("tick", 0, 0, 0, TRUE)>>
  /\ frame = << >>
  /\ timers = 0
  /\ goals = 0
  /\ levels = 1
  /\ lastHurtAt = 0
  /\ now = 0
  /\ hurts = 0
  /\ call = [fn |-> "none"]

\* the resize handler fitCanvas (main.js 376-382) with its drawAll, for the
\* first resize of the window; call records the cell the agent was in when
\* the handler ran
Resize ==
  /\ BetweenFrames
  /\ canvas = GameCanvas
  /\ \E cv \in RzCanvases \ {canvas} :
       /\ canvas' = cv
       /\ metrics' = drawMaze(maze, cv)
  /\ player' = drawAllPlayer(player)
  /\ call' = [fn |-> "fitCanvas", cellX |-> player.cellX,
              cellY |-> player.cellY, ticks |-> 0, drag |-> FALSE]
  /\ UNCHANGED <<genVars, hurtVars, loopVars>>

\* a tick; call notes the first tick after a resize and whether a drag was
\* active in it
RzTick ==
  /\ tick
  /\ call' = IF call.fn = "fitCanvas" /\ call.ticks = 0
               THEN [call EXCEPT !.ticks = 1,
                                 !.drag = dragging /\ lastTouch # << >>]
               ELSE [fn |-> "none"]

NextRz == OnStart \/ OnMoveB \/ OnEnd \/ RzTick \/ JumpStep \/ Resize
SpecRz == InitRz /\ [][NextRz]_vars

(***************************************************************************)
(* The passage graph of a maze.                                            *)
(***************************************************************************)
Cells(m) == (0..(m.cols - 1)) \X (0..(m.rows - 1))
InGrid(m, x, y) == x >= 0 /\ y >= 0 /\ x < m.cols /\ y < m.rows
StepX(dir) == IF dir = 1 THEN 1 ELSE IF dir = 3 THEN -1 ELSE 0
StepY(dir) == IF dir = 2 THEN 1 ELSE IF dir = 0 THEN -1 ELSE 0
MaskAt(m, c) == m.grid[c[2] * m.cols + c[1]]

\* the pairs <<cell, right or bottom neighbour>> declared open on both sides
OpenPairs(m) ==
  { p \in Cells(m) \X {1, 2} :
      LET c == p[1]
          n == <<c[1] + StepX(p[2]), c[2] + StepY(p[2])>>
      IN  /\ InGrid(m, n[1], n[2])
          /\ (MaskAt(m, c) \div Pow2(p[2])) % 2 = 1
          /\ (MaskAt(m, n) \div Pow2((p[2] + 2) % 4)) % 2 = 1 }

\* the cells one open passage away from a cell of S
Beyond(m, S) ==
  { n \in Cells(m) :
      \E c \in S, d \in 0..3 :
        /\ n = <<c[1] + StepX(d), c[2] + StepY(d)>>
        /\ (MaskAt(m, c) \div Pow2(d)) % 2 = 1 }

RECURSIVE Closure(_, _)
Closure(m, S) ==
  LET T == S \cup Beyond(m, S)
  IN  IF T = S THEN S ELSE Closure(m, T)

ReachableFromStart(m) == Closure(m, { <<0, 0>> })

(***************************************************************************)
(* C1: when generate has returned on a fresh maze, exactly cols*rows - 1   *)
(* passage pairs are open and every cell is reachable from (0,0) through   *)
(* open passages: the passage graph is a spanning tree.                    *)
(***************************************************************************)
C1_PerfectMaze ==
  pc = "done" =>
    /\ Cardinality(OpenPairs(maze)) = maze.cols * maze.rows - 1
    /\ ReachableFromStart(maze) = Cells(maze)

C1_Witness ==
  /\ pc = "done"
  /\ maze.cols >= 2 /\ maze.rows >= 2
  /\ Cardinality(OpenPairs(maze)) >= 3

(***************************************************************************)
(* C2: at every loop iteration of generate and after it, a cell that has   *)
(* bit d open has an in-grid neighbour in direction d, and that neighbour  *)
(* has bit (d+2) mod 4 open.                                               *)
(***************************************************************************)
C2_MutualPassages ==
  \A c \in Cells(maze), d \in 0..3 :
    (MaskAt(maze, c) \div Pow2(d)) % 2 = 1 =>
      /\ InGrid(maze, c[1] + StepX(d), c[2] + StepY(d))
      /\ (MaskAt(maze, <<c[1] + StepX(d), c[2] + StepY(d)>>)
            \div Pow2((d + 2) % 4)) % 2 = 1

C2_Witness ==
  /\ pc = "loop"
  /\ Len(stack) >= 3
  /\ \E c \in Cells(maze) : MaskAt(maze, c) \notin {0, 1, 2, 4, 8}

BitSet(mask, d) == (mask \div Pow2(d)) % 2 = 1
CellOf(px, py) ==
  << (px - metrics.originX) \div metrics.cellSize,
     (py - metrics.originY) \div metrics.cellSize >>
CellInGrid(c) == InGrid(maze, c[1], c[2])
\* cell b is the 4-neighbour of cell a in direction d
NeighbourIn(a, b, d) == b = <<a[1] + StepX(d), a[2] + StepY(d)>>

(***************************************************************************)
(* C4: for an in-grid cell and a direction 0..3, canMove returns false     *)
(* when the neighbour in that direction is outside the grid, whatever the  *)
(* mask, and otherwise returns whether bit dir of the cell's mask is open. *)
(***************************************************************************)
C4_BoundaryRejection ==
  (call.fn = "canMove" /\ InGrid(maze, call.x, call.y)) =>
    /\ ~call.threw
    /\ call.result =
         (/\ InGrid(maze, call.x + StepX(call.dir), call.y + StepY(call.dir))
          /\ BitSet(MaskAt(maze, <<call.x, call.y>>), call.dir))

C4_Witness ==
  /\ call.fn = "canMove"
  /\ InGrid(maze, call.x, call.y)
  /\ ~InGrid(maze, call.x + StepX(call.dir), call.y + StepY(call.dir))
  /\ BitSet(MaskAt(maze, <<call.x, call.y>>), call.dir)
  /\ call.result = FALSE

(***************************************************************************)
(* C5: canMove called with coordinates outside the grid returns false and  *)
(* does not throw.                                                         *)
(***************************************************************************)
C5_OutOfRangeIsFalse ==
  (call.fn = "canMove" /\ ~InGrid(maze, call.x, call.y)) =>
    (~call.threw /\ call.result = FALSE)

(***************************************************************************)
(* C6: for an in-grid position P and any step, attemptMove returns a       *)
(* position in P's cell or in a 4-neighbour of it that is in the grid and  *)
(* whose bit toward that neighbour is open in P's cell.                    *)
(***************************************************************************)
C6_StepRespectsWalls ==
  (call.fn = "attemptMove" /\ CellInGrid(CellOf(call.cx, call.cy))) =>
    LET a == CellOf(call.cx, call.cy)
        b == CellOf(call.result[1], call.result[2])
    IN  \/ b = a
        \/ /\ CellInGrid(b)
           /\ \E d \in 0..3 : NeighbourIn(a, b, d) /\ BitSet(MaskAt(maze, a), d)

C6_Witness ==
  /\ call.fn = "attemptMove"
  /\ CellInGrid(CellOf(call.cx, call.cy))
  /\ CellInGrid(CellOf(call.result[1], call.result[2]))
  /\ CellOf(call.result[1], call.result[2]) # CellOf(call.cx, call.cy)
  /\ call.result # <<call.cx + call.dx, call.cy + call.dy>>

C8_GoalLatch ==
  /\ goals <= 1
  /\ won = (goals = 1)
  /\ (levels > 0 /\ player.cellX = maze.goal[1] /\ player.cellY = maze.goal[2])
       => goals = 1

C8_Witness ==
  /\ levels >= 2
  /\ goals = 1
  /\ won
  /\ <<player.cellX, player.cellY>> # maze.goal
  /\ \A i \in 1..Len(raf) : raf[i].kind # "jump"

(***************************************************************************)
(* C9 (Variant A): within one level, that is since the last startGame,     *)
(* onGoal is called at most once, also when chained hops take the agent    *)
(* off the goal cell and back onto it.                                     *)
(***************************************************************************)
C9_GoalOncePerLevelA == goals <= 1

(***************************************************************************)
(* C10: a hurt event that follows an earlier one comes more than 220 ms    *)
(* after it, and an attempt made within 220 ms of the last hurt event      *)
(* fires nothing and leaves lastHurtAt and hurtFlash as they were.         *)
(***************************************************************************)
C10_HurtRateLimit ==
  (call.fn = "maybeHurt" /\ call.events > 0) =>
    /\ call.fired => /\ call.t - call.lastBefore > HurtWindow
                     /\ call.lastAfter = call.t
    /\ call.t - call.lastBefore <= HurtWindow =>
         /\ ~call.fired
         /\ call.lastAfter = call.lastBefore
         /\ call.flashAfter = call.flashBefore
    /\ lastHurtAt = call.lastAfter

\* a second hurt event has fired, and later an attempt exactly 220 ms after
\* it, with the flash still showing, was ignored
C10_Witness ==
  /\ call.fn = "maybeHurt"
  /\ hurts = 2
  /\ ~call.fired
  /\ call.t - call.lastBefore = HurtWindow
  /\ call.flashBefore > 0

(***************************************************************************)
(* C11 (Variant B): with the agent at the centre of cell (0,0) and the     *)
(* drag target directly above it outside the grid, a tick leaves the       *)
(* position as it was, the first blocked attempt (made when the clock is   *)
(* past the window) fires one hurt event, and a blocked attempt within     *)
(* 220 ms of the last hurt event fires none.                               *)
(***************************************************************************)
C11_BlockedScenario ==
  call.fn = "tick" =>
    /\ <<player.x, player.y>> = <<call.x, call.y>>
    /\ (call.rejected /\ call.events = 0 /\ call.t > HurtWindow)
         => hurts = 1
    /\ (call.rejected /\ call.events > 0
          /\ call.t - call.lastBefore <= HurtWindow)
         => hurts = call.events

(***************************************************************************)
(* C12: the centre of an in-range cell maps back to that cell, and         *)
(* cellFromPoint answers null exactly for the points outside the rectangle *)
(* of the grid, and otherwise the cell whose square holds the point.       *)
(***************************************************************************)
C12_RoundTrip ==
  /\ call.fn = "roundTrip" => call.result = <<call.cx, call.cy>>
  /\ call.fn = "cellFromPoint" =>
       LET inside ==
             /\ call.px >= metrics.originX
             /\ call.py >= metrics.originY
             /\ call.px < metrics.originX + maze.cols * metrics.cellSize
             /\ call.py < metrics.originY + maze.rows * metrics.cellSize
       IN  /\ (call.result = << >>) <=> ~inside
           /\ inside =>
                /\ metrics.originX + call.result[1] * metrics.cellSize <= call.px
                /\ call.px < metrics.originX + (call.result[1] + 1) * metrics.cellSize
                /\ metrics.originY + call.result[2] * metrics.cellSize <= call.py
                /\ call.py < metrics.originY + (call.result[2] + 1) * metrics.cellSize

\* the last cell of a 2 x 2 maze, under the smallest cells and a shifted origin
C12_Witness ==
  /\ call.fn = "roundTrip"
  /\ maze.cols = 2 /\ maze.rows = 2
  /\ call.cx = 1 /\ call.cy = 1
  /\ call.result = <<1, 1>>
  /\ metrics.cellSize = 2 /\ metrics.originX = 1

(***************************************************************************)
(* C13 (Variant B): after a resize with no drag active, the first tick     *)
(* leaves the agent's recorded cell the cell it was before the resize.     *)
(***************************************************************************)
C13_ResizeKeepsCell ==
  (call.fn = "fitCanvas" /\ call.ticks = 1 /\ ~call.drag) =>
    /\ player.cellX = call.cellX
    /\ player.cellY = call.cellY

(***************************************************************************)
(* C14: a pointer handler (a step that changes dragging or lastTouch)      *)
(* changes neither the agent's continuous position nor its occupied cell.  *)
(***************************************************************************)
C14_HandlersLeaveAgent ==
  [][(dragging' # dragging \/ lastTouch' # lastTouch) =>
       /\ player'.x = player.x
       /\ player'.y = player.y
       /\ player'.cellX = player.cellX
       /\ player'.cellY = player.cellY]_vars

(***************************************************************************)
(* C15: every onGoal event schedules exactly one restart; the pending      *)
(* restarts only go away one at a time, each by a startGame call; and      *)
(* every startGame call installs a maze with start (0,0) and goal          *)
(* (cols-1, rows-1), puts the agent on the centre of the start cell, and   *)
(* leaves the goal event able to fire again.                               *)
(***************************************************************************)
C15_LevelProgression ==
  [][/\ (goals' = goals + 1) => (timers' = timers + 1)
     /\ (timers' > timers) => (goals' = goals + 1 /\ timers' = timers + 1)
     /\ (timers' < timers) => (timers' = timers - 1 /\ levels' = levels + 1)
     /\ (levels' # levels) =>
          /\ levels' = levels + 1
          /\ maze' \in LevelMazes
          /\ maze'.start = <<0, 0>>
          /\ maze'.goal = <<maze'.cols - 1, maze'.rows - 1>>
          /\ player'.cellX = 0 /\ player'.cellY = 0
          /\ 2 * player'.x = 2 * metrics'.originX + metrics'.cellSize
          /\ 2 * player'.y = 2 * metrics'.originY + metrics'.cellSize
          /\ ~won'
          /\ goals' = 0]_vars

\* the restart timer of the first level's goal event has fired: the second
\* level has begun, with the goal jump of the first still being played
C15_Witness ==
  /\ levels = 2
  /\ timers = 0
  /\ goals = 0
  /\ ~won
  /\ \E i \in 1..Len(raf) : raf[i].kind = "jump"
  /\ player.cellX = 0 /\ player.cellY = 0
  /\ 2 * player.x = 2 * metrics.originX + metrics.cellSize

(***************************************************************************)
(* C16: after every startGame call the won flag is false, no direction is  *)
(* queued, no hop is in flight and no step callback of a hop is pending.   *)
(***************************************************************************)
C16_StartResetsLoop ==
  [][(levels' # levels) =>
       /\ ~won'
       /\ queuedDir' = -1
       /\ ~player'.moving
       /\ \A i \in 1..Len(raf') : raf'[i].kind # "step"]_vars

(***************************************************************************)
(* C17: generate returns for every size from 1 x 1 up, corridors included, *)
(* and when it returns the stack is empty and every cell has been marked   *)
(* visited, pushed exactly once and popped exactly once; on the way no     *)
(* cell is pushed twice or popped more often than pushed.                  *)
(***************************************************************************)
C17_Terminates ==
  /\ <>(pc = "done")
  /\ [](\A i \in DOMAIN pushes : pushes[i] <= 1 /\ pops[i] <= pushes[i])
  /\ [](pc = "done" =>
          /\ stack = << >>
          /\ visited = DOMAIN maze.grid
          /\ \A i \in DOMAIN pushes : pushes[i] = 1 /\ pops[i] = 1)

\* a 1 x 3 corridor has been generated
C17_Witness ==
  /\ pc = "done"
  /\ maze.cols = 1 /\ maze.rows = 3
  /\ stack = << >>
  /\ \A i \in 0..2 : pushes[i] = 1 /\ pops[i] = 1
  /\ maze.grid = [i \in 0..2 |-> IF i = 0 THEN 4 ELSE IF i = 1 THEN 5 ELSE 1]

(***************************************************************************)
(* C18 (Variant B): attemptMove returns the first of the full step, the    *)
(* X-only step and the Y-only step that canTraverse accepts; it returns    *)
(* the unchanged position and asks for a hurt event exactly when all three *)
(* are rejected (the clock is past the window, so asking fires the event). *)
(***************************************************************************)
C18_SlideOrder ==
  call.fn = "attemptMove" =>
    LET full == canTraverse(maze, metrics, call.cx, call.cy,
                            call.cx + call.dx, call.cy + call.dy)
        xOnly == canTraverse(maze, metrics, call.cx, call.cy,
                             call.cx + call.dx, call.cy)
        yOnly == canTraverse(maze, metrics, call.cx, call.cy,
                             call.cx, call.cy + call.dy)
    IN  /\ full => call.result = <<call.cx + call.dx, call.cy + call.dy>>
        /\ (~full /\ xOnly) => call.result = <<call.cx + call.dx, call.cy>>
        /\ (~full /\ ~xOnly /\ yOnly)
             => call.result = <<call.cx, call.cy + call.dy>>
        /\ (~full /\ ~xOnly /\ ~yOnly) => call.result = <<call.cx, call.cy>>
        /\ (hurts = 1) <=> (~full /\ ~xOnly /\ ~yOnly)
        /\ hurts <= 1

\* a diagonal step into the diagonal neighbour is rejected, both slides are
\* possible, and the X slide is the one taken
C18_Witness ==
  /\ call.fn = "attemptMove"
  /\ call.dx # 0 /\ call.dy # 0
  /\ ~canTraverse(maze, metrics, call.cx, call.cy,
                  call.cx + call.dx, call.cy + call.dy)
  /\ canTraverse(maze, metrics, call.cx, call.cy, call.cx + call.dx, call.cy)
  /\ canTraverse(maze, metrics, call.cx, call.cy, call.cx, call.cy + call.dy)
  /\ cellFromPoint(maze, metrics, call.cx + call.dx, call.cy)
       # cellFromPoint(maze, metrics, call.cx, call.cy)
  /\ cellFromPoint(maze, metrics, call.cx, call.cy + call.dy)
       # cellFromPoint(maze, metrics, call.cx, call.cy)
  /\ call.result = <<call.cx + call.dx, call.cy>>
  /\ hurts = 0

(***************************************************************************)
(* C19: when a movement callback (the step callback of Variant A, the tick *)
(* of Variant B) has moved the agent, the recorded cell is                 *)
(* cellFromPoint of the new position under the current metrics.            *)
(***************************************************************************)
C19_CellTracksPosition ==
  [][(/\ Due # << >>
      /\ Head(Due).kind \in {"step", "tick"}
      /\ levels' = levels
      /\ <<player'.x, player'.y>> # <<player.x, player.y>>)
     => <<player'.cellX, player'.cellY>>
          = cellFromPoint(maze', metrics', player'.x, player'.y)]_vars

\* the direction the claim prescribes for a pointer offset (dx, dy)
C20_Dir(dx, dy) ==
  IF Abs(dy) >= Abs(dx) THEN (IF dy > 0 THEN 2 ELSE 0)
  ELSE (IF dx > 0 THEN 1 ELSE 3)

\* the cell c has an in-grid neighbour in direction d and its bit d is open
C20_OpenTo(c, d) ==
  /\ CellInGrid(<<c[1] + StepX(d), c[2] + StepY(d)>>)
  /\ BitSet(MaskAt(maze, c), d)

(***************************************************************************)
(* C20 (Variant A): within a level the agent's cell changes only to the    *)
(* 4-neighbour in the chosen direction, and only through an open passage   *)
(* to an in-grid cell.  The direction is that of the dominant axis of the  *)
(* pointer offset (vertical on a tie): from the agent's position when a    *)
(* request starts a hop, and at a chained hop the queued direction or,     *)
(* failing that, the direction from the completed hop's target.  A request *)
(* while idle toward a closed direction leaves cell, target and moving     *)
(* flag as they were.                                                      *)
(***************************************************************************)
C20_WallSafetyA ==
  [][(levels' = levels) =>
       LET c == <<player.cellX, player.cellY>>
           c2 == <<player'.cellX, player'.cellY>>
           asked == C20_Dir(lastTouch'[1] - player.x, lastTouch'[2] - player.y)
           d == IF ~player.moving THEN asked
                ELSE IF queuedDir # -1 THEN queuedDir
                ELSE C20_Dir(lastTouch[1] - player.targetX,
                             lastTouch[2] - player.targetY)
       IN  /\ (c2 # c) =>
                /\ c2 = <<c[1] + StepX(d), c[2] + StepY(d)>>
                /\ C20_OpenTo(c, d)
                /\ player'.moving
           /\ (/\ dragging
               /\ lastTouch' # << >>
               /\ lastTouch' # lastTouch
               /\ ~player.moving
               /\ ~C20_OpenTo(c, asked)) =>
                /\ c2 = c
                /\ player'.targetX = player.targetX
                /\ player'.targetY = player.targetY
                /\ ~player'.moving]_vars

\* a hop from the start cell has just been started through an open passage:
\* the cell is already the neighbour, the position still the start centre
C20_Witness ==
  /\ levels = 1
  /\ player.moving
  /\ <<player.cellX, player.cellY>> = <<1, 0>>
  /\ BitSet(MaskAt(maze, <<0, 0>>), 1)
  /\ <<player.x, player.y>> = cellCenter(metrics, 0, 0)
  /\ <<player.targetX, player.targetY>> = cellCenter(metrics, 1, 0)

(***************************************************************************)
(* C21 (Variant A): queuedDir is set only while a hop is in flight and     *)
(* only to a direction open from the hop's destination cell; the callback  *)
(* that completes a hop empties the queue and, if the queued direction is  *)
(* open, starts the next hop in it; and a queued direction is consumed in  *)
(* the level in which it was requested.                                    *)
(***************************************************************************)
C21_DirectionQueue ==
  [][LET c == <<player.cellX, player.cellY>>
         c2 == <<player'.cellX, player'.cellY>>
     IN  /\ (queuedDir' # queuedDir /\ queuedDir' # -1) =>
              /\ player.moving
              /\ C20_OpenTo(c, queuedDir')
         /\ (levels' = levels /\ player.moving /\ (~player'.moving \/ c2 # c)) =>
              /\ queuedDir' = -1
              /\ (queuedDir # -1 /\ C20_OpenTo(c, queuedDir)) =>
                   /\ c2 = <<c[1] + StepX(queuedDir), c[2] + StepY(queuedDir)>>
                   /\ player'.moving
         /\ (queuedDir # -1 /\ queuedDir' = -1) => call.level = levels]_vars

(***************************************************************************)
(* C22 (Variant A): whenever no hop is in flight and no goal jump is being *)
(* played, the agent stands exactly on the centre of its recorded cell.    *)
(***************************************************************************)
C22_RestsOnCentre ==
  (/\ levels > 0
   /\ ~player.moving
   /\ \A i \in 1..Len(raf) : raf[i].kind # "jump"
   /\ \A i \in 1..Len(frame) : frame[i].kind # "jump")
  => <<player.x, player.y>> = cellCenter(metrics, player.cellX, player.cellY)

(***************************************************************************)
(* C23 (Variant B): within a level the agent's position and cell are       *)
(* changed only by the tick, and a change of the recorded cell goes to a   *)
(* 4-neighbour through an open passage.                                    *)
(***************************************************************************)
C23_OnlyTickMovesAgent ==
  [][(levels' = levels) =>
       LET c == <<player.cellX, player.cellY>>
           c2 == <<player'.cellX, player'.cellY>>
       IN  /\ (<<player'.x, player'.y, c2>> # <<player.x, player.y, c>>) =>
                (Due # << >> /\ Head(Due).kind = "tick")
           /\ (c2 # c) =>
                \E d \in 0..3 :
                  /\ c2 = <<c[1] + StepX(d), c[2] + StepY(d)>>
                  /\ C20_OpenTo(c, d)]_vars

(***************************************************************************)
(* C24 (Variant B): once a level has started the agent's position always   *)
(* lies in a cell of the grid (cellFromPoint is not null), and a tick with *)
(* no active drag leaves the position as it was.                           *)
(***************************************************************************)
C24_StaysInGrid ==
  [][/\ (levels' > 0) =>
          cellFromPoint(maze', metrics', player'.x, player'.y) # << >>
     /\ (/\ levels' = levels
         /\ Due # << >>
         /\ Head(Due).kind = "tick"
         /\ frame' = Tail(Due)
         /\ ~(dragging /\ lastTouch # << >>)) =>
          <<player'.x, player'.y>> = <<player.x, player.y>>]_vars

(***************************************************************************)
(* C25: at most one self-rescheduling movement callback is pending at any  *)
(* time: at most one tick of Variant B's loop, however often startLoop is  *)
(* called, and at most one step of Variant A's hop animation, however      *)
(* often animate is started.                                               *)
(***************************************************************************)
C25_Pending(kind) ==
  Cardinality({i \in 1..Len(raf) : raf[i].kind = kind})
    + Cardinality({j \in 1..Len(frame) : frame[j].kind = kind})

C26_StackIsPath ==
  pc = "loop" =>
    /\ \A i \in 1..Len(stack) :
         /\ InGrid(maze, stack[i][1], stack[i][2])
         /\ idx(maze, stack[i][1], stack[i][2]) \in visited
    /\ \A i \in 1..Len(stack), j \in 1..Len(stack) :
         i # j => stack[i] # stack[j]
    /\ Len(stack) > 0 => stack[1] = <<0, 0>>
    /\ \A i \in 1..(Len(stack) - 1) :
         \E d \in 0..3 :
           /\ stack[i + 1] = <<stack[i][1] + StepX(d), stack[i][2] + StepY(d)>>
           /\ BitSet(MaskAt(maze, stack[i]), d)
           /\ BitSet(MaskAt(maze, stack[i + 1]), (d + 2) % 4)
    /\ Cardinality(OpenPairs(maze)) = Cardinality(visited) - 1

C26_CarveStep ==
  /\ \A c \in Cells(maze), d \in 0..3 :
       BitSet(MaskAt(maze, c), d) => BitSet(MaskAt(maze', c), d)
  /\ (maze'.grid # maze.grid) =>
       /\ Len(stack) > 0
       /\ stack' = Append(stack, Top(stack'))
       /\ idx(maze, Top(stack')[1], Top(stack')[2]) \notin visited
       /\ visited' = visited \cup {idx(maze, Top(stack')[1], Top(stack')[2])}
       /\ Cardinality(OpenPairs(maze')) = Cardinality(OpenPairs(maze)) + 1
       /\ \A c \in Cells(maze) :
            MaskAt(maze', c) # MaskAt(maze, c) => c \in {Top(stack), Top(stack')}

C26_StackInvariant == [](C26_StackIsPath) /\ [][C26_CarveStep]_vars

\* after a dead end and a backtrack the loop is about to carve a branch: the
\* stack is shorter than the visited set and its top has an unvisited neighbour
C26_Witness ==
  /\ pc = "loop"
  /\ Len(stack) >= 3
  /\ Cardinality(visited) > Len(stack)
  /\ Len(TopUnvisited) > 0
====
